---- MODULE Spec2Model ----
(***************************************************************************)
(* A model of the notebook "Download 45,000 Adoptable Cat Images with      *)
(* petpy and multiprocessing": the reshaping of the combined record table  *)
(* into the download list (get_images, the width filter, the breed         *)
(* sanitising, drop_duplicates, the per-breed head), the sequential        *)
(* creation of the breed directories, and the thread pool that maps        *)
(* download_breed_images over the list.                                    *)
(*                                                                         *)
(* Text is a sequence of one-character strings, so that splitting,         *)
(* replacing and joining are computed on characters ("cat_breeds" and      *)
(* ".jpg" are kept as single elements: no operation looks inside them).    *)
(* A table is a sequence of rows, in row order.                            *)
(***************************************************************************)
EXTENDS Integers, Sequences, FiniteSets

\* ---------------------------------------------------------------- bounds

\* Rows of the combined record table `cats`.
MaxRecords == 2

\* The per-breed cap of `groupby('breed').head(5000)`, scaled down so that a
\* breed can exceed it.
MaxPerBreed == 3

\* The worker threads of ThreadPool(processes=20), scaled down.
Processes == 2

\* ------------------------------------------------------ program constants

\* cat_breed_images['image_width'] == 500
TargetWidth == 500

\* The HTTP status an HTTPError carries (the run printed 415 twice).
HttpCode == 415

\* ------------------------------------------------------------------ text

NULL == <<"NaN">>

Digits == {"0", "1", "2", "3", "4", "5", "6", "7", "8", "9"}

DigitVal(c) ==
    CASE c = "0" -> 0 [] c = "1" -> 1 [] c = "2" -> 2 [] c = "3" -> 3
      [] c = "4" -> 4 [] c = "5" -> 5 [] c = "6" -> 6 [] c = "7" -> 7
      [] c = "8" -> 8 [] c = "9" -> 9

DigitChar(d) ==
    CASE d = 0 -> "0" [] d = 1 -> "1" [] d = 2 -> "2" [] d = 3 -> "3"
      [] d = 4 -> "4" [] d = 5 -> "5" [] d = 6 -> "6" [] d = 7 -> "7"
      [] d = 8 -> "8" [] d = 9 -> "9"

\* The subsequence of s at the positions in I, in order.
SubseqAt(s, I) ==
    LET F[i \in 0..Len(s)] ==
            IF i = 0 THEN <<>>
            ELSE IF i \in I THEN Append(F[i - 1], s[i]) ELSE F[i - 1]
    IN  F[Len(s)]

\* The position of the first occurrence of sep in s, 0 when there is none.
Find(s, sep) ==
    LET hits == {i \in 1..(Len(s) - Len(sep) + 1) :
                    SubSeq(s, i, i + Len(sep) - 1) = sep}
    IN  IF hits = {} THEN 0 ELSE CHOOSE i \in hits : \A j \in hits : i <= j

\* .str.split('width=', 1).str[1]: the text after the first 'width=';
\* NaN when the url holds no 'width=' (the list has one element).
after_width(url) ==
    LET sep == <<"w", "i", "d", "t", "h", "=">>
        at  == Find(url, sep)
    IN  IF url = NULL \/ at = 0 THEN NULL
        ELSE SubSeq(url, at + Len(sep), Len(url))

\* .str.split('&', 0).str[0]: the text before the first '&' (n = 0 puts no
\* limit on the splits); all of it when there is no '&'; NaN stays NaN.
before_amp(t) ==
    LET at == Find(t, <<"&">>)
    IN  IF t = NULL THEN NULL
        ELSE IF at = 0 THEN t ELSE SubSeq(t, 1, at - 1)

\* Whether int(t) succeeds: a non-empty run of decimal digits (the model's
\* alphabet has no sign, blank or underscore). int(NaN) raises ValueError.
int_ok(t) ==
    /\ t # NULL
    /\ Len(t) > 0
    /\ \A i \in 1..Len(t) : t[i] \in Digits

\* int(t) of a run of decimal digits.
RECURSIVE int_of(_)
int_of(t) ==
    IF Len(t) = 0 THEN 0
    ELSE 10 * int_of(SubSeq(t, 1, Len(t) - 1)) + DigitVal(t[Len(t)])

\* str(n) of a non-negative integer.
RECURSIVE str_of(_)
str_of(n) ==
    IF n < 10 THEN <<DigitChar(n)>>
    ELSE Append(str_of(n \div 10), DigitChar(n % 10))

\* s.replace(' ', '_', 1): only the first space is replaced.
replace_first_space(s) ==
    [i \in 1..Len(s) |->
        IF s[i] = " " /\ (\A j \in 1..(i - 1) : s[j] # " ") THEN "_" ELSE s[i]]

\* s.replace(' ', '_'): every space becomes an underscore.
replace_space(s) ==
    [i \in 1..Len(s) |-> IF s[i] = " " THEN "_" ELSE s[i]]

\* s.replace('/', ''): every slash is removed.
remove_slash(s) ==
    SelectSeq(s, LAMBDA c : c # "/")

\* ---------------------------------------------------------------- inputs

\* A photo url as the API gives it: <photo>?width=<width>&x
Url(photo, width) ==
    <<photo, "?", "w", "i", "d", "t", "h", "=">> \o width \o <<"&", "x">>

A50  == Url("a", <<"5", "0">>)
A60  == Url("a", <<"6", "0">>)
A95  == Url("a", <<"9", "5">>)
A300 == Url("a", <<"3", "0", "0">>)
A500 == Url("a", <<"5", "0", "0">>)
B500 == Url("b", <<"5", "0", "0">>)
C500 == Url("c", <<"5", "0", "0">>)
\* A url with no 'width=' parameter, and one whose width is not a number.
NoWidth  == <<"a", "?", "x">>
BadWidth == Url("b", <<"b", "i", "g">>)

\* The photo columns of one record (a missing photo is NaN).
PhotoRows ==
    { <<A50, A60, A95, A300, A500>>,
      <<A500, B500, C500, NULL, NULL>>,
      <<NULL, B500, NULL, A300, NULL>>,
      <<A300, NULL, NULL, NULL, NULL>>,
      <<A500, NoWidth, NULL, NULL, NULL>>,
      <<BadWidth, C500, NULL, NULL, NULL>> }

PhotoCols == 1..5

\* Breed labels as the API gives them.
DSH    == <<"D", " ", "S", " ", "H">>
DSH_us == <<"D", "_", "S", "_", "H">>
CT     == <<"C", "/", "T">>
SI     == <<"S", "i">>

\* (breed0, breed1): the secondary label is optional.
BreedPairs ==
    { <<DSH_us, NULL>>, <<DSH, DSH>>, <<DSH, CT>>, <<CT, DSH>> }

Ids == {1, 2}

Records ==
    { [id |-> i, breed0 |-> b[1], breed1 |-> b[2], photos |-> p] :
        i \in Ids, b \in BreedPairs, p \in PhotoRows }

\* The combined table pd.concat(cats): a record may come back from several
\* breed queries, and then it is the same record each time.
SmallTables ==
    { t \in UNION { [1..n -> Records] : n \in 1..MaxRecords } :
        \A i, j \in DOMAIN t : t[i].id = t[j].id => t[i] = t[j] }

\* A table with enough width-500 photos for Pool.map to cut the download
\* list into chunks of more than one triple.
ThreePhotos(i, b) ==
    [id |-> i, breed0 |-> b, breed1 |-> NULL,
     photos |-> <<A500, B500, C500, A300, NULL>>]

BigTable == <<ThreePhotos(3, SI), ThreePhotos(1, DSH), ThreePhotos(2, CT)>>

Tables == SmallTables \cup {BigTable}

\* Two more labels: one that ends in a digit, and one more plain label.
SI1 == <<"S", "i", "1">>
AB  == <<"A", "b">>

\* A record with a single width-500 photo.
OnePhoto(i, b) ==
    [id |-> i, breed0 |-> b, breed1 |-> NULL,
     photos |-> <<NULL, B500, NULL, A300, NULL>>]

\* A table whose download list runs to a two-digit index: the row of "Si1"
\* gets index 0 and the row of "Si" index 10, so that both file names read
\* "Si10.jpg". Records 2 and 3 have different labels that are one label
\* once sanitised.
DigitsTable ==
    <<ThreePhotos(5, AB), OnePhoto(1, SI1), ThreePhotos(3, DSH_us),
      OnePhoto(6, SI), ThreePhotos(4, CT), OnePhoto(2, DSH)>>

\* Two records whose different labels are the same label once sanitised.
MergedTable == <<OnePhoto(1, DSH), OnePhoto(2, DSH_us)>>

\* A table in which the head cuts a row in the middle of the list: the
\* breed of record 2 is full when its row comes, record 3's row follows it.
CutTable == <<OnePhoto(3, CT), ThreePhotos(1, DSH), OnePhoto(2, DSH_us)>>

LongTables == {DigitsTable, MergedTable, CutTable}

\* -------------------------------------------------------------- pipeline

\* pd.melt(photos, id_vars=['id', 'breed0', 'breed1']): one row per photo
\* column and record, column by column.
melt(df) ==
    [k \in 1..(Len(df) * Cardinality(PhotoCols)) |->
        LET c == ((k - 1) \div Len(df)) + 1
            r == ((k - 1) % Len(df)) + 1
        IN  [id |-> df[r].id, breed0 |-> df[r].breed0,
             breed1 |-> df[r].breed1, value |-> df[r].photos[c]]]

\* DataFrame.drop_duplicates(): the first of each run of equal rows is kept.
drop_duplicates(t) ==
    SubseqAt(t, {i \in 1..Len(t) : \A j \in 1..(i - 1) : t[j] # t[i]})

\* breeds1.append(breeds2): the primary-label rows, then the secondary-label
\* rows that have a label.
breeds_appended(df) ==
    LET photos_melted == SelectSeq(melt(df), LAMBDA r : r.value # NULL)
        breeds1 == [k \in 1..Len(photos_melted) |->
                      [id |-> photos_melted[k].id,
                       breed |-> photos_melted[k].breed0,
                       img |-> photos_melted[k].value]]
        all2    == [k \in 1..Len(photos_melted) |->
                      [id |-> photos_melted[k].id,
                       breed |-> photos_melted[k].breed1,
                       img |-> photos_melted[k].value]]
        breeds2 == SelectSeq(all2, LAMBDA r : r.breed # NULL)
    IN  breeds1 \o breeds2

\* get_images without its drop_duplicates().
get_images_no_dedup(df) == breeds_appended(df)

get_images(df) == drop_duplicates(breeds_appended(df))

\* The image_width column: NaN or text that is no number makes astype(int)
\* raise ValueError.
width_text(img) == before_amp(after_width(img))

image_width_ok(t) == \A i \in 1..Len(t) : int_ok(width_text(t[i].img))

image_width(t) ==
    [i \in 1..Len(t) |->
        [id |-> t[i].id, breed |-> t[i].breed, img |-> t[i].img,
         image_width |-> int_of(width_text(t[i].img))]]

\* groupby('id').apply(lambda x: x[x['image_width'] == 500]): the groups
\* in ascending id, each group's rows in their order.
RECURSIVE groups_concat(_, _)
groups_concat(t, ids) ==
    IF ids = {} THEN <<>>
    ELSE LET m == CHOOSE i \in ids : \A j \in ids : i <= j
         IN  SelectSeq(t, LAMBDA r : r.id = m) \o groups_concat(t, ids \ {m})

\* The filter with >= in place of ==.
width_filter_at_least(t) == SelectSeq(t, LAMBDA r : r.image_width >= 300)

width_filter(t) == SelectSeq(t, LAMBDA r : r.image_width = TargetWidth)

largest(t) ==
    groups_concat(width_filter(t), {t[i].id : i \in 1..Len(t)})

\* The two str.replace calls on the breed column.
sanitise(b) == remove_slash(replace_space(b))

sanitise_breed(t) ==
    [i \in 1..Len(t) |->
        [id |-> t[i].id, breed |-> sanitise(t[i].breed), img |-> t[i].img,
         image_width |-> t[i].image_width]]

\* drop_duplicates() with no subset: whole rows are compared.
drop_duplicates_whole_row(t) ==
    SubseqAt(t, {i \in 1..Len(t) : \A j \in 1..(i - 1) : t[j] # t[i]})

\* drop_duplicates(subset=['img']): the id is left out of the key.
drop_duplicates_img(t) ==
    SubseqAt(t, {i \in 1..Len(t) : \A j \in 1..(i - 1) : t[j].img # t[i].img})

\* drop_duplicates(subset=['img', 'id'], keep='last').
drop_duplicates_img_id_keep_last(t) ==
    SubseqAt(t, {i \in 1..Len(t) :
                    \A j \in (i + 1)..Len(t) :
                        ~(t[j].img = t[i].img /\ t[j].id = t[i].id)})

\* drop_duplicates(subset=['img', 'id']): the first row of each (img, id).
drop_duplicates_img_id(t) ==
    SubseqAt(t, {i \in 1..Len(t) :
                    \A j \in 1..(i - 1) :
                        ~(t[j].img = t[i].img /\ t[j].id = t[i].id)})

\* The head with its count off by one.
head_per_breed_one_more(t, n) ==
    SubseqAt(t, {i \in 1..Len(t) :
                    Cardinality({j \in 1..(i - 1) : t[j].breed = t[i].breed}) <= n})

\* groupby('breed').tail(n): the last n rows of each breed.
tail_per_breed(t, n) ==
    SubseqAt(t, {i \in 1..Len(t) :
                    Cardinality({j \in (i + 1)..Len(t) : t[j].breed = t[i].breed}) < n})

\* groupby('breed').head(n): a row stays when fewer than n rows of its breed
\* precede it; the rows keep their order.
head_per_breed(t, n) ==
    SubseqAt(t, {i \in 1..Len(t) :
                    Cardinality({j \in 1..(i - 1) : t[j].breed = t[i].breed}) < n})

\* The three column lists, and their re-packing into [index, breed, url]
\* triples; reset_index() numbers the rows from 0.
index_list(t) == [i \in 1..Len(t) |-> i - 1]
breed_list_col(t) == [i \in 1..Len(t) |-> t[i].breed]
urls_list(t) == [i \in 1..Len(t) |-> t[i].img]

\* The re-packing with the url list read from its end.
repack_urls_reversed(t) ==
    LET breed_list == <<index_list(t), breed_list_col(t), urls_list(t)>>
        n == Len(breed_list[1])
    IN  [i \in 1..n |->
            <<breed_list[1][i], breed_list[2][i], breed_list[3][n + 1 - i]>>]

repack(t) ==
    LET breed_list == <<index_list(t), breed_list_col(t), urls_list(t)>>
    IN  [i \in 1..Len(breed_list[1]) |->
            <<breed_list[1][i], breed_list[2][i], breed_list[3][i]>>]

\* The distinct breeds but the last one (a loop that stops one short).
unique_breeds_but_last(t) ==
    LET b == [i \in 1..Len(t) |-> t[i].breed]
        u == SubseqAt(b, {i \in 1..Len(b) : \A j \in 1..(i - 1) : b[j] # b[i]})
    IN  SubSeq(u, 1, Len(u) - 1)

\* Series.unique(): the distinct breeds in order of first appearance.
unique_breeds(t) ==
    LET b == breed_list_col(t)
    IN  SubseqAt(b, {i \in 1..Len(b) : \A j \in 1..(i - 1) : b[j] # b[i]})

\* ------------------------------------------------------------ file system

\* os.path.join(a, b): b is appended after a separator, unless a ends in
\* one already; an absolute b replaces a.
path_join(a, b) ==
    IF Len(b) > 0 /\ b[1] = "/" THEN b
    ELSE IF Len(a) = 0 \/ a[Len(a)] = "/" THEN a \o b
    ELSE a \o <<"/">> \o b

\* The path without the breed directory.
dest_path_no_dir(breed_img) ==
    path_join(<<"cat_breeds", "/">>,
              breed_img[2] \o str_of(breed_img[1]) \o <<".jpg">>)

\* The path without the index in the file name.
dest_path_without_index(breed_img) ==
    path_join(path_join(<<"cat_breeds", "/">>, breed_img[2]),
              breed_img[2] \o <<".jpg">>)

\* The file download_breed_images saves the triple [index, breed, url] to.
dest_path(breed_img) ==
    path_join(path_join(<<"cat_breeds", "/">>, breed_img[2]),
              breed_img[2] \o str_of(breed_img[1]) \o <<".jpg">>)

\* The argument of os.makedirs for one breed.
dir_path(breed) == <<"cat_breeds", "/">> \o breed

\* os.path.dirname: the text before the last separator.
dirname(p) ==
    LET seps == {i \in 1..Len(p) : p[i] = "/"}
    IN  IF seps = {} THEN <<>>
        ELSE SubSeq(p, 1, (CHOOSE i \in seps : \A j \in seps : j <= i) - 1)

\* The directories os.makedirs(p) leaves in place: p and every ancestor.
RECURSIVE ancestors(_)
ancestors(p) ==
    IF Len(p) = 0 THEN {}
    ELSE {p} \cup ancestors(dirname(p))

\* ------------------------------------------------------------- pool.map

\* Pool.map's chunk size: divmod(len(iterable), len(pool) * 4), rounded up.
chunksize(n) ==
    LET q == n \div (Processes * 4)
    IN  IF n % (Processes * 4) # 0 THEN q + 1 ELSE q

\* The number of chunks rounded down: the short last chunk is left out.
n_chunks_floor(n) ==
    IF n = 0 THEN 0 ELSE n \div chunksize(n)

\* The number of tasks (chunks) a list of n items is cut into.
n_chunks(n) ==
    IF n = 0 THEN 0 ELSE (n + chunksize(n) - 1) \div chunksize(n)

\* The last item (1-based) of chunk c.
chunk_last(c, n) ==
    IF c * chunksize(n) < n THEN c * chunksize(n) ELSE n

\* What urlretrieve can do with one url: save the file, raise HTTPError
\* (before the file is opened), or raise another URLError / OSError.
Outcomes == {"ok", "HTTPError", "URLError"}

\* ---------------------------------------------------------------- state

VARIABLES
    pc,                 \* the notebook cell the main thread is at
    cats,               \* the combined record table
    cat_breed_images,   \* get_images(cats), then with image_width
    cat_images_largest, \* the width-500 rows, then with sanitised breeds
    breed_images,       \* after drop_duplicates(subset=['img', 'id'])
    breed_images_5000,  \* after the per-breed head
    breed_list_new,     \* the [index, breed, url] triples
    breed_dirs,         \* the distinct breeds of breed_images_5000
    made,               \* how many of breed_dirs the makedirs loop has done
    dirs,               \* the directories that exist
    files,              \* the files written: [path, by] (by: the triple's position)
    stdout,             \* the error codes printed
    taskq,              \* the next chunk the pool hands out
    workers,            \* the worker threads at work: [chunk, item, busy (fetching)]
    status,             \* per triple: pending, fetching, saved, http_error, raised, skipped
    chunk_result        \* per chunk: none, ok, exc

vars == <<pc, cats, cat_breed_images, cat_images_largest, breed_images,
          breed_images_5000, breed_list_new, breed_dirs, made, dirs, files,
          stdout, taskq, workers, status, chunk_result>>

tables == <<cat_breed_images, cat_images_largest, breed_images,
            breed_images_5000, breed_list_new, breed_dirs>>

disk == <<made, dirs, files, stdout>>

pool == <<taskq, workers, status, chunk_result>>

Init ==
    /\ pc = "get_images"
    /\ cats \in Tables
    /\ cat_breed_images = <<>>
    /\ cat_images_largest = <<>>
    /\ breed_images = <<>>
    /\ breed_images_5000 = <<>>
    /\ breed_list_new = <<>>
    /\ breed_dirs = <<>>
    /\ made = 0
    /\ dirs = {}
    /\ files = {}
    /\ stdout = <<>>
    /\ taskq = 0
    /\ workers = {}
    /\ status = <<>>
    /\ chunk_result = <<>>

\* cat_breed_images = get_images(cats)
GetImages ==
    /\ pc = "get_images"
    /\ cat_breed_images' = get_images(cats)
    /\ pc' = "image_width"
    /\ UNCHANGED <<cats, cat_images_largest, breed_images, breed_images_5000,
                   breed_list_new, breed_dirs, disk, pool>>

\* cat_breed_images['image_width'] = ... .astype(int)
ImageWidth ==
    /\ pc = "image_width"
    /\ IF image_width_ok(cat_breed_images)
       THEN /\ cat_breed_images' = image_width(cat_breed_images)
            /\ pc' = "largest"
       ELSE /\ pc' = "ValueError"
            /\ UNCHANGED cat_breed_images
    /\ UNCHANGED <<cats, cat_images_largest, breed_images, breed_images_5000,
                   breed_list_new, breed_dirs, disk, pool>>

\* cat_images_largest = cat_breed_images.groupby('id').apply(...), then
\* del ['id']; reset_index(); del ['level_1']. The group keys come back as
\* index levels only when some group's result differs from the group: when
\* the filter removes no row at all, apply returns the frame under its own
\* index, and del cat_images_largest['level_1'] raises KeyError.
Largest ==
    /\ pc = "largest"
    /\ IF width_filter(cat_breed_images) = cat_breed_images
       THEN /\ pc' = "KeyError"
            /\ UNCHANGED cat_images_largest
       ELSE /\ cat_images_largest' = largest(cat_breed_images)
            /\ pc' = "sanitise"
    /\ UNCHANGED <<cats, cat_breed_images, breed_images, breed_images_5000,
                   breed_list_new, breed_dirs, disk, pool>>

\* cat_images_largest['breed'] = ...str.replace(' ', '_') ...str.replace('/', '')
Sanitise ==
    /\ pc = "sanitise"
    /\ cat_images_largest' = sanitise_breed(cat_images_largest)
    /\ pc' = "drop_duplicates"
    /\ UNCHANGED <<cats, cat_breed_images, breed_images, breed_images_5000,
                   breed_list_new, breed_dirs, disk, pool>>

\* breed_images = cat_images_largest.drop_duplicates(subset=['img', 'id'])
DropDuplicates ==
    /\ pc = "drop_duplicates"
    /\ breed_images' = drop_duplicates_img_id(cat_images_largest)
    /\ pc' = "head"
    /\ UNCHANGED <<cats, cat_breed_images, cat_images_largest,
                   breed_images_5000, breed_list_new, breed_dirs, disk, pool>>

\* breed_images_5000 = breed_images.groupby('breed').head(5000).reset_index()
HeadPerBreed ==
    /\ pc = "head"
    /\ breed_images_5000' = head_per_breed(breed_images, MaxPerBreed)
    /\ pc' = "lists"
    /\ UNCHANGED <<cats, cat_breed_images, cat_images_largest, breed_images,
                   breed_list_new, breed_dirs, disk, pool>>

\* urls, breed, index = ...; breed_list = ...; breed_list_new = [...];
\* breed_dirs = list(breed_images_5000['breed'].unique())
Lists ==
    /\ pc = "lists"
    /\ breed_list_new' = repack(breed_images_5000)
    /\ breed_dirs' = unique_breeds(breed_images_5000)
    /\ pc' = "makedirs"
    /\ UNCHANGED <<cats, cat_breed_images, cat_images_largest, breed_images,
                   breed_images_5000, disk, pool>>

\* for i in breed_dirs: os.makedirs('cat_breeds/' + str(i))
\* (FileExistsError when the directory is there already).
MakeDir ==
    /\ pc = "makedirs"
    /\ made < Len(breed_dirs)
    /\ IF dir_path(breed_dirs[made + 1]) \in dirs
       THEN /\ pc' = "FileExistsError"
            /\ UNCHANGED <<made, dirs>>
       ELSE /\ dirs' = dirs \cup ancestors(dir_path(breed_dirs[made + 1]))
            /\ made' = made + 1
            /\ pc' = pc
    /\ UNCHANGED <<cats, tables, files, stdout, pool>>

\* pool = ThreadPool(processes=20); pool.map(download_breed_images,
\* breed_list_new) cuts the list into chunks and queues them.
PoolMap ==
    /\ pc = "makedirs"
    /\ made = Len(breed_dirs)
    /\ taskq' = 1
    /\ status' = [i \in 1..Len(breed_list_new) |-> "pending"]
    /\ chunk_result' = [c \in 1..n_chunks(Len(breed_list_new)) |-> "none"]
    /\ pc' = "pool_map"
    /\ UNCHANGED <<cats, tables, disk, workers>>

\* An idle worker thread takes the next chunk off the queue and calls
\* download_breed_images on its first triple.
TakeTask ==
    /\ pc = "pool_map"
    /\ Cardinality(workers) < Processes
    /\ taskq <= Len(chunk_result)
    /\ LET first == (taskq - 1) * chunksize(Len(breed_list_new)) + 1
       IN  /\ workers' = workers \cup
                            {[chunk |-> taskq, item |-> first, busy |-> TRUE]}
           /\ status' = [status EXCEPT ![first] = "fetching"]
    /\ taskq' = taskq + 1
    /\ UNCHANGED <<pc, cats, tables, disk, chunk_result>>

\* A worker thread calls download_breed_images on the next triple of its chunk.
NextInChunk(w) ==
    /\ pc = "pool_map"
    /\ ~w.busy
    /\ workers' = (workers \ {w}) \cup {[w EXCEPT !.busy = TRUE]}
    /\ status' = [status EXCEPT ![w.item] = "fetching"]
    /\ UNCHANGED <<pc, cats, tables, disk, taskq, chunk_result>>

\* The worker moves on after a call of download_breed_images that returned:
\* to the chunk's next triple, or the chunk is done and the worker is idle.
returned(w) ==
    IF w.item < chunk_last(w.chunk, Len(breed_list_new))
    THEN /\ workers' = (workers \ {w}) \cup
                          {[w EXCEPT !.item = w.item + 1, !.busy = FALSE]}
         /\ UNCHANGED chunk_result
    ELSE /\ workers' = workers \ {w}
         /\ chunk_result' = [chunk_result EXCEPT ![w.chunk] = "ok"]

\* The exception leaves download_breed_images: list(map(func, chunk)) stops,
\* the rest of the chunk is never called, and the chunk's result is the
\* exception.
raised(w) ==
    /\ status' = [i \in DOMAIN status |->
                    IF i = w.item THEN "raised"
                    ELSE IF /\ i > w.item
                            /\ i <= chunk_last(w.chunk, Len(breed_list_new))
                         THEN "skipped"
                         ELSE status[i]]
    /\ workers' = workers \ {w}
    /\ chunk_result' = [chunk_result EXCEPT ![w.chunk] = "exc"]

\* urlretrieve(url, path) inside try ... except urllib.error.HTTPError.
download_breed_images(w, outcome) ==
    LET i == w.item
        path == dest_path(breed_list_new[i])
    IN  CASE outcome = "ok" /\ dirname(path) \in dirs ->
                /\ files' = files \cup {[path |-> path, by |-> i]}
                /\ status' = [status EXCEPT ![i] = "saved"]
                /\ returned(w)
                /\ UNCHANGED stdout
          [] outcome = "HTTPError" ->
                /\ stdout' = Append(stdout, HttpCode)
                /\ status' = [status EXCEPT ![i] = "http_error"]
                /\ returned(w)
                /\ UNCHANGED files
          [] OTHER ->
                \* URLError, or open() raising FileNotFoundError: not caught
                /\ raised(w)
                /\ UNCHANGED <<files, stdout>>

EndFetch(w) ==
    /\ pc = "pool_map"
    /\ w.busy
    /\ \E outcome \in Outcomes : download_breed_images(w, outcome)
    /\ UNCHANGED <<pc, cats, tables, made, dirs, taskq>>

\* pool.map returns when every chunk has a result, and re-raises a chunk's
\* exception; pool.close() and pool.join() follow in the same cell.
MapReturn ==
    /\ pc = "pool_map"
    /\ \A c \in DOMAIN chunk_result : chunk_result[c] # "none"
    /\ pc' = IF \E c \in DOMAIN chunk_result : chunk_result[c] = "exc"
             THEN "map_raised" ELSE "close_join"
    /\ UNCHANGED <<cats, tables, disk, pool>>

CloseJoin ==
    /\ pc = "close_join"
    /\ pc' = "done"
    /\ UNCHANGED <<cats, tables, disk, pool>>

Next ==
    \/ GetImages
    \/ ImageWidth
    \/ Largest
    \/ Sanitise
    \/ DropDuplicates
    \/ HeadPerBreed
    \/ Lists
    \/ MakeDir
    \/ PoolMap
    \/ TakeTask
    \/ \E w \in workers : NextInChunk(w)
    \/ \E w \in workers : EndFetch(w)
    \/ MapReturn
    \/ CloseJoin

\* The state after cats = pd.concat(cats), for the tables of T.
Start(T) ==
    /\ pc = "get_images"
    /\ cats \in T
    /\ cat_breed_images = <<>>
    /\ cat_images_largest = <<>>
    /\ breed_images = <<>>
    /\ breed_images_5000 = <<>>
    /\ breed_list_new = <<>>
    /\ breed_dirs = <<>>
    /\ made = 0
    /\ dirs = {}
    /\ files = {}
    /\ stdout = <<>>
    /\ taskq = 0
    /\ workers = {}
    /\ status = <<>>
    /\ chunk_result = <<>>

Spec == Init /\ [][Next]_vars

\* The notebook run on the longer tables.
InitLong == Start(LongTables)

SpecLong == InitLong /\ [][Next]_vars

\* A run in which every fetch ends, with the file saved or with an HTTP
\* error: the server answers each request.
HttpOutcomes == {"ok", "HTTPError"}

EndFetchHttp(w) ==
    /\ pc = "pool_map"
    /\ w.busy
    /\ \E outcome \in HttpOutcomes : download_breed_images(w, outcome)
    /\ UNCHANGED <<pc, cats, tables, made, dirs, taskq>>

NextHttp ==
    \/ GetImages
    \/ ImageWidth
    \/ Largest
    \/ Sanitise
    \/ DropDuplicates
    \/ HeadPerBreed
    \/ Lists
    \/ MakeDir
    \/ PoolMap
    \/ TakeTask
    \/ \E w \in workers : NextInChunk(w)
    \/ \E w \in workers : EndFetchHttp(w)
    \/ MapReturn
    \/ CloseJoin

\* The pool's threads and the main thread waiting in pool.map keep running
\* while they have a step to take: the interpreter schedules every runnable
\* thread, and every fetch ends.
SpecHttp ==
    /\ Init
    /\ [][NextHttp]_vars
    /\ WF_vars(TakeTask)
    /\ WF_vars(\E w \in workers : NextInChunk(w))
    /\ WF_vars(\E w \in workers : EndFetchHttp(w))
    /\ WF_vars(MapReturn)

\* The cells before the pool: the tables, the list and the directories.
NextSequential ==
    \/ GetImages
    \/ ImageWidth
    \/ Largest
    \/ Sanitise
    \/ DropDuplicates
    \/ HeadPerBreed
    \/ Lists
    \/ MakeDir

SpecSequential == Init /\ [][NextSequential]_vars

\* The cells before the pool, on the small and the longer tables.
InitLists == Start(Tables \cup LongTables)

SpecLists == InitLists /\ [][NextSequential]_vars

\* ---------------------------------------------------------------- claims

\* The cells that have run: the stages at which each table exists.
ListBuilt ==
    pc \in {"makedirs", "pool_map", "close_join", "done", "map_raised",
            "FileExistsError"}

Deduplicated == pc \in {"head", "lists"} \/ ListBuilt

\* The number of rows of table t that belong to record id.
RowsOf(t, id) == Cardinality({i \in 1..Len(t) : t[i].id = id})

\* C1: the final download list (and the deduplicated list it is cut from)
\* holds no two rows with the same (id, url) pair.
C1_NoDuplicateIdUrl ==
    /\ \A i, j \in 1..Len(breed_images_5000) :
          (/\ breed_images_5000[i].id = breed_images_5000[j].id
           /\ breed_images_5000[i].img = breed_images_5000[j].img) => i = j
    /\ \A i, j \in 1..Len(breed_images) :
          (/\ breed_images[i].id = breed_images[j].id
           /\ breed_images[i].img = breed_images[j].img) => i = j

\* C1's case: a record with two different breed labels that came back from
\* two breed queries, with a row in the final list.
C1_Witness ==
    /\ ListBuilt
    /\ \E a, b \in DOMAIN cats :
          /\ a # b
          /\ cats[a].id = cats[b].id
          /\ cats[a].breed1 # NULL
          /\ cats[a].breed1 # cats[a].breed0
          /\ RowsOf(breed_images_5000, cats[a].id) > 0

\* The url reads ...width=<TargetWidth>, up to the next '&' or the end, at
\* its first 'width='.
\* (TargetKey: the text 'width=500'.)
TargetKey == <<"w", "i", "d", "t", "h", "=">> \o str_of(TargetWidth)

HasTargetWidth(url) ==
    \E k \in 1..(Len(url) - Len(TargetKey) + 1) :
        /\ SubSeq(url, k, k + Len(TargetKey) - 1) = TargetKey
        /\ k + Len(TargetKey) <= Len(url) => url[k + Len(TargetKey)] = "&"
        /\ \A m \in 1..(k - 1) : SubSeq(url, m, m + 5) # SubSeq(TargetKey, 1, 6)

\* C2: every row of the final download list has a url whose embedded width
\* is the target width; a url of any other width is not in it.
C2_OnlyTargetWidth ==
    /\ \A i \in 1..Len(breed_images_5000) :
          HasTargetWidth(breed_images_5000[i].img)
    /\ \A i \in 1..Len(breed_list_new) : HasTargetWidth(breed_list_new[i][3])

\* C2's case: the input had urls of another width, and the list is not empty.
C2_Witness ==
    /\ ListBuilt
    /\ Len(breed_list_new) > 0
    /\ \E r \in DOMAIN cats : \E c \in PhotoCols :
          /\ cats[r].photos[c] # NULL
          /\ ~HasTargetWidth(cats[r].photos[c])

\* C3: no breed has more than the cap of rows in the final download list.
C3_BreedCap ==
    \A i \in 1..Len(breed_images_5000) :
        Cardinality({j \in 1..Len(breed_images_5000) :
                        breed_images_5000[j].breed = breed_images_5000[i].breed})
            <= MaxPerBreed

\* C3's case: a breed with more rows than the cap before the head.
C3_Witness ==
    /\ ListBuilt
    /\ \E i \in 1..Len(breed_images) :
          Cardinality({j \in 1..Len(breed_images) :
                          breed_images[j].breed = breed_images[i].breed})
              > MaxPerBreed

\* The label with its slashes left out and its spaces turned to underscores.
Cleaned(label) ==
    LET kept == SelectSeq(label, LAMBDA c : c # "/")
    IN  [i \in 1..Len(kept) |-> IF kept[i] = " " THEN "_" ELSE kept[i]]

NoSpaceNoSlash(b) == \A i \in 1..Len(b) : b[i] # " " /\ b[i] # "/"

C5_EveryFailureSwallowed ==
    /\ pc # "map_raised"
    /\ \A i \in DOMAIN status : status[i] \notin {"raised", "skipped"}

\* <base_dir>/<breed>/<breed><index>.jpg for row i of the final list.
ExpectedPath(i) ==
    <<"cat_breeds", "/">> \o breed_images_5000[i].breed \o <<"/">>
        \o breed_images_5000[i].breed \o str_of(i - 1) \o <<".jpg">>

FiveWidths == <<A50, A60, A95, A300, A500>>

\* The urls of record r at the target width.
TargetUrls(r) ==
    {u \in {r.photos[c] : c \in PhotoCols} : u # NULL /\ HasTargetWidth(u)}

\* The per-breed head cuts the row of record id: the cap of rows of its
\* breed precede it in the deduplicated list.
CutByHead(id) ==
    \E i \in 1..Len(breed_images) :
        /\ breed_images[i].id = id
        /\ Cardinality({j \in 1..(i - 1) :
                           breed_images[j].breed = breed_images[i].breed})
              >= MaxPerBreed

\* C7, as claimed: the record of the scenario has exactly one row in the
\* final download list, and a record with no url of the target width none.
C7_ExactlyOneInFinalList ==
    ListBuilt =>
        \A r \in DOMAIN cats :
            /\ cats[r].photos = FiveWidths
                  => RowsOf(breed_images_5000, cats[r].id) = 1
            /\ TargetUrls(cats[r]) = {}
                  => RowsOf(breed_images_5000, cats[r].id) = 0

\* C7, amended: the record of the scenario has exactly one row in the
\* deduplicated list, and in the final download list one row unless the
\* per-breed head cuts it, and then none; a record with no url of the target
\* width has no row in either.
C7_ExactlyOneUnlessCut ==
    \A r \in DOMAIN cats :
        /\ (Deduplicated /\ cats[r].photos = FiveWidths)
              => RowsOf(breed_images, cats[r].id) = 1
        /\ (ListBuilt /\ cats[r].photos = FiveWidths)
              => RowsOf(breed_images_5000, cats[r].id)
                    = IF CutByHead(cats[r].id) THEN 0 ELSE 1
        /\ (Deduplicated /\ TargetUrls(cats[r]) = {})
              => /\ RowsOf(breed_images, cats[r].id) = 0
                 /\ RowsOf(breed_images_5000, cats[r].id) = 0

\* C7's case: a two-label record of the scenario with its one row in the
\* final list, beside a record with no url of the target width.
C7_Witness ==
    /\ ListBuilt
    /\ \E r, q \in DOMAIN cats :
          /\ cats[r].photos = FiveWidths
          /\ cats[r].breed1 \notin {NULL, cats[r].breed0}
          /\ RowsOf(breed_images_5000, cats[r].id) = 1
          /\ TargetUrls(cats[q]) = {}
          /\ RowsOf(breed_images_5000, cats[q].id) = 0

\* A photo field that is there but whose width cannot be read.
Malformed(u) == u # NULL /\ ~int_ok(width_text(u))

\* The table with its malformed photo fields absent.
WithoutMalformed(t) ==
    [r \in DOMAIN t |->
        [t[r] EXCEPT !.photos =
            [c \in PhotoCols |->
                IF Malformed(t[r].photos[c]) THEN NULL ELSE t[r].photos[c]]]]

\* The cells of the pipeline, one after the other.
Pipeline(t) ==
    head_per_breed(
        drop_duplicates_img_id(
            sanitise_breed(largest(image_width(get_images(t))))),
        MaxPerBreed)

\* C8, as claimed: no cell raises on a missing or malformed photo field, and
\* the final list is the one the table without those fields gives.
C8_BadFieldsDroppedSilently ==
    /\ pc # "ValueError"
    /\ ListBuilt => breed_images_5000 = Pipeline(WithoutMalformed(cats))

\* The directory of triple i.
DirOf(i) == <<"cat_breeds", "/">> \o breed_list_new[i][2]

\* C9: once the pool has started, the directory of every triple exists (so
\* it does when a worker begins a fetch), and the directories change only in
\* the makedirs loop, before any triple is queued: no worker creates one.
C9_DirsBeforePool ==
    /\ [](pc \in {"pool_map", "close_join", "done", "map_raised"}
            => \A i \in 1..Len(breed_list_new) : DirOf(i) \in dirs)
    /\ [](\A i \in DOMAIN status : status[i] = "fetching" => DirOf(i) \in dirs)
    /\ [][dirs' # dirs => (pc = "makedirs" /\ pc' = "makedirs" /\ status = <<>>)]_vars

\* C9's case: two workers fetching at once, for triples of different breeds.
C9_Witness ==
    \E v, w \in workers :
        /\ v.busy
        /\ w.busy
        /\ breed_list_new[v.item][2] # breed_list_new[w.item][2]

\* The rows of table t for record id and url.
RowsOfUrl(t, id, url) ==
    Cardinality({i \in 1..Len(t) : t[i].id = id /\ t[i].img = url})

SameLabels(r) == r.breed1 = r.breed0

\* C10, as claimed: for a record whose two breed labels are the same, the
\* output of get_images holds two rows for each of its photo urls.
C10_TwoRowsSurvive ==
    pc # "get_images" =>
        \A r \in DOMAIN cats : \A c \in PhotoCols :
            (SameLabels(cats[r]) /\ cats[r].photos[c] # NULL)
                => RowsOfUrl(cat_breed_images, cats[r].id, cats[r].photos[c]) = 2

\* C10, amended: such a record gives two rows (or more, when it came back
\* from several queries) for each photo url before drop_duplicates(), and
\* get_images' drop_duplicates() collapses them: its output, and the final
\* list, hold one row for that (record, url), never two.
C10_SameLabelRowsCollapse ==
    LET appended == breeds_appended(cats)
    IN  \A r \in DOMAIN cats : \A c \in PhotoCols :
        (SameLabels(cats[r]) /\ cats[r].photos[c] # NULL) =>
            /\ RowsOfUrl(appended, cats[r].id, cats[r].photos[c]) >= 2
            /\ pc # "get_images" =>
                  RowsOfUrl(cat_breed_images, cats[r].id, cats[r].photos[c]) = 1
            /\ RowsOfUrl(breed_images_5000, cats[r].id, cats[r].photos[c]) <= 1

\* C10's case: a record with the same label twice, one row of it in the
\* final list.
C10_Witness ==
    /\ ListBuilt
    /\ \E r \in DOMAIN cats : \E c \in PhotoCols :
          /\ SameLabels(cats[r])
          /\ cats[r].photos[c] # NULL
          /\ RowsOfUrl(breed_images_5000, cats[r].id, cats[r].photos[c]) = 1

\* ------------------------------------------------------------------- C11

\* The head has run.
Truncated == pc = "lists" \/ ListBuilt

\* a can be had from b by leaving rows out.
RECURSIVE IsSubsequence(_, _)
IsSubsequence(a, b) ==
    IF a = <<>> THEN TRUE
    ELSE IF b = <<>> THEN FALSE
    ELSE IF Head(a) = Head(b) THEN IsSubsequence(Tail(a), Tail(b))
    ELSE IsSubsequence(a, Tail(b))

RowsOfBreed(t, b) == SelectSeq(t, LAMBDA r : r.breed = b)

Min(a, b) == IF a < b THEN a ELSE b

Rows(t) == {t[i] : i \in 1..Len(t)}

\* C11: the per-breed head keeps the order of the rows: the final list
\* breed_images_5000 is a subsequence of the deduplicated list breed_images,
\* and the rows of each breed in it are the first min(cap, count) rows of
\* that breed in breed_images (a breed with at most cap rows loses none).
C11_HeadKeepsFirstRows ==
    Truncated =>
        /\ IsSubsequence(breed_images_5000, breed_images)
        /\ \A r \in Rows(breed_images) :
              LET before == RowsOfBreed(breed_images, r.breed)
                  after  == RowsOfBreed(breed_images_5000, r.breed)
              IN  /\ after = SubSeq(before, 1, Min(MaxPerBreed, Len(before)))
                  /\ Len(before) <= MaxPerBreed => after = before

\* The head has cut a row that another breed's surviving row follows, and
\* that breed has lost no row.
C11_Witness ==
    /\ Truncated
    /\ \E j, k \in 1..Len(breed_images) :
          /\ j < k
          /\ breed_images[j] \notin Rows(breed_images_5000)
          /\ breed_images[k] \in Rows(breed_images_5000)
          /\ RowsOfBreed(breed_images_5000, breed_images[k].breed)
                = RowsOfBreed(breed_images, breed_images[k].breed)
          /\ Len(RowsOfBreed(breed_images, breed_images[j].breed)) > MaxPerBreed

\* ------------------------------------------------------------------- C12

\* C12: the indices of the download list are dense: with N rows in
\* breed_images_5000 the list has N triples, the indices are 0..N-1, each
\* used once and in list order, and the triple at each position carries the
\* index, the breed and the url of the row at that position.
C12_DenseIndicesSameRow ==
    ListBuilt =>
        LET N == Len(breed_images_5000)
        IN  /\ Len(breed_list_new) = N
            /\ {breed_list_new[i][1] : i \in 1..Len(breed_list_new)} = 0..(N - 1)
            /\ \A i, j \in 1..Len(breed_list_new) :
                  i < j => breed_list_new[i][1] < breed_list_new[j][1]
            /\ \A i \in 1..Len(breed_list_new) :
                  /\ Len(breed_list_new[i]) = 3
                  /\ breed_list_new[i][2] = breed_images_5000[breed_list_new[i][1] + 1].breed
                  /\ breed_list_new[i][3] = breed_images_5000[breed_list_new[i][1] + 1].img

\* A list that runs to a two-digit index, with rows that differ in breed
\* and in url.
C12_Witness ==
    /\ ListBuilt
    /\ Len(breed_list_new) > 10
    /\ \E i, j \in 1..Len(breed_list_new) :
          /\ breed_list_new[i][2] # breed_list_new[j][2]
          /\ breed_list_new[i][3] # breed_list_new[j][3]

\* ------------------------------------------------------------------- C13

\* The triple at position i has its file, under its own path.
HasFile(i) ==
    \E f \in files : f.by = i /\ f.path = dest_path(breed_list_new[i])

\* No file is at the path of the triple at position i.
NoFile(i) ==
    \A f \in files : f.by # i /\ f.path # dest_path(breed_list_new[i])

\* pool.map has returned.
MapDone == pc \in {"close_join", "done"}

\* C13: there is no retry. When fetches can only succeed or fail with an
\* HTTP error, pool.map, once called, returns; when it has returned every
\* triple has been fetched (none is pending or in flight), a triple whose
\* fetch failed has no file, and a triple whose fetch succeeded has its
\* file; a triple is fetched from the pending state only, and once its
\* fetch has ended its status never changes, so it is fetched exactly once.
C13_NoRetryTerminates ==
    /\ (pc = "pool_map") ~> MapDone
    /\ [](MapDone =>
            \A i \in 1..Len(breed_list_new) :
                /\ status[i] \in {"saved", "http_error"}
                /\ status[i] = "saved" => HasFile(i)
                /\ status[i] = "http_error" => NoFile(i))
    /\ [][\A i \in DOMAIN status :
            /\ (status'[i] = "fetching" /\ status[i] # "fetching")
                    => status[i] = "pending"
            /\ status[i] \in {"saved", "http_error"} => status'[i] = status[i]
            /\ status[i] = "http_error" => NoFile(i)']_vars

\* pool.map has returned from a list of which one fetch succeeded and
\* another, in a chunk of several triples, failed.
C13_Witness ==
    /\ pc = "done"
    /\ chunksize(Len(breed_list_new)) > 1
    /\ \E i, j \in 1..Len(breed_list_new) :
          /\ status[i] = "saved" /\ HasFile(i)
          /\ status[j] = "http_error" /\ NoFile(j)
          /\ j < Len(breed_list_new)
          /\ status[j + 1] = "saved"

\* ------------------------------------------------------------------- C14

\* The sanitised primary labels of the records of the table.
PrimaryLabels == {sanitise(cats[r].breed0) : r \in DOMAIN cats}

\* Record r has a secondary label that, sanitised, is no record's primary
\* label.
SecondaryOnly(r) ==
    /\ cats[r].breed1 # NULL
    /\ sanitise(cats[r].breed1) \notin PrimaryLabels

\* C14: every row of the final list breed_images_5000 carries the sanitised
\* primary label (breed0) of its record; a secondary label (breed1) that is
\* not, once sanitised, the primary label of some record is the breed of no
\* final row and of no triple, and gets no directory.
C14_PrimaryLabelOnly ==
    ListBuilt =>
        /\ \A i \in 1..Len(breed_images_5000) :
              \E r \in DOMAIN cats :
                  /\ cats[r].id = breed_images_5000[i].id
                  /\ breed_images_5000[i].breed = sanitise(cats[r].breed0)
        /\ \A r \in DOMAIN cats :
              SecondaryOnly(r) =>
                  LET label == sanitise(cats[r].breed1)
                  IN  /\ \A i \in 1..Len(breed_images_5000) :
                            breed_images_5000[i].breed # label
                      /\ \A i \in 1..Len(breed_list_new) :
                            breed_list_new[i][2] # label
                      /\ \A i \in 1..Len(breed_dirs) : breed_dirs[i] # label
                      /\ dir_path(label) \notin dirs

\* The directories are made for a list with a row of a record that has two
\* different labels, of which the secondary is no record's primary label.
C14_Witness ==
    /\ pc = "makedirs"
    /\ made = Len(breed_dirs)
    /\ \E r \in DOMAIN cats :
          /\ SecondaryOnly(r)
          /\ \E i \in 1..Len(breed_images_5000) :
                /\ breed_images_5000[i].id = cats[r].id
                /\ dir_path(breed_images_5000[i].breed) \in dirs

\* ------------------------------------------------------------------- C15

\* The file name of the triple at position i without its extension: the
\* breed followed by the index.
FileStem(i) == breed_list_new[i][2] \o str_of(breed_list_new[i][1])

\* The label, as the API gave it, of the record behind position i.
RawLabel(i) ==
    LET r == CHOOSE r \in DOMAIN cats : cats[r].id = breed_images_5000[i].id
    IN  cats[r].breed0

\* C15: two different triples of the download list have different
\* destination paths (the list has as many paths as triples), so whatever the interleaving of the pool's workers,
\* two workers never fetch to the same path at the same time, and no file
\* is written by two triples (no image is overwritten by another).
C15_DistinctPaths ==
    /\ ListBuilt =>
          Cardinality({dest_path(breed_list_new[i]) :
                          i \in 1..Len(breed_list_new)}) = Len(breed_list_new)
    /\ \A w, v \in workers :
          (w # v /\ w.busy /\ v.busy) =>
              dest_path(breed_list_new[w.item]) # dest_path(breed_list_new[v.item])
    /\ \A f, g \in files : f.path = g.path => f.by = g.by

\* pool.map has returned, and the files are there of two triples whose file
\* names are the same text (a label ending in a digit) and of two triples
\* whose different labels were merged by the sanitising.
C15_Witness ==
    /\ pc = "done"
    /\ \E i, j \in 1..Len(breed_list_new) :
          /\ i # j
          /\ FileStem(i) = FileStem(j)
          /\ HasFile(i) /\ HasFile(j)
    /\ \E i, j \in 1..Len(breed_list_new) :
          /\ i # j
          /\ RawLabel(i) # RawLabel(j)
          /\ breed_list_new[i][2] = breed_list_new[j][2]
          /\ HasFile(i) /\ HasFile(j)
====
